---- MODULE Spec2Model ----
(***************************************************************************)
(* Model of the rgw mgr module (src/pybind/mgr/rgw/module.py): the command *)
(* handlers of class Module, the check_orchestrator gate, the batch parser *)
(* and the realm token listing, on top of the RGWAM engine                 *)
(* (ceph.rgw.rgwam_core), the admin tool and the orchestrator.             *)
(*                                                                         *)
(* The handlers are translated from module.py.  The engine operations they *)
(* call (RGWAM.realm_bootstrap, zone_create, ...) are not part of module.py*)
(* and are modelled from the design document, one action per external      *)
(* call (admin tool invocation, orchestrator call) so that the order of    *)
(* the calls and the interleaving of two handlers can be observed.         *)
(***************************************************************************)
EXTENDS Integers, Sequences, FiniteSets, TLC

(***************************************************************************)
(* Bounds of the model.                                                    *)
(***************************************************************************)
\* longest batch (number of YAML documents in inbuf)
MaxBatch == 2
\* number of command invocations in one behaviour
MaxCalls == 2

(***************************************************************************)
(* Program constants.                                                      *)
(***************************************************************************)
\* errno.EINVAL, returned negated by the gate and by the argument check
EINVAL == 22

\* the call sites; the commands of SerialCallers run one at a time
Callers == {"a", "b"}
SerialCallers == {"a"}


\* non-zero exit codes of the admin tool
ToolFailCodes == {5}

VARIABLES
    realms,       \* admin tool state: set of [name, id]
    zonegroups,   \* admin tool state: set of [name, id, realm, is_master, endpoints]
    zones,        \* admin tool state: set of [name, id, zonegroup, is_master, access_key, secret]
    daemons,      \* orchestrator state: ids of the zones with deployed daemons
    staged,       \* TRUE while a structural mutation awaits a period commit
    ncalls,       \* number of commands invoked so far
    call,         \* per call site: the handler's frame
    codec,        \* a token on its way through encode and decode
    parser,       \* an inbuf on its way through _parse_rgw_specs
    lastcmd,      \* history: the command that returned last
    raced         \* history: two commands for one realm name were in flight together

vars == <<realms, zonegroups, zones, daemons, staged, ncalls, call, codec, parser, lastcmd, raced>>

topology == <<realms, zonegroups, zones, daemons, staged>>

(***************************************************************************)
(* Values.                                                                 *)
(***************************************************************************)
\* a YAML document of inbuf; null is the empty document ('---' alone)
NullDoc == [null |-> TRUE, realm_name |-> "", zonegroup_name |-> "",
            zone_name |-> "", realm_token |-> <<>>]

NewDoc(r, g, z) == [null |-> FALSE, realm_name |-> r, zonegroup_name |-> g,
                    zone_name |-> z, realm_token |-> <<>>]

JoinDoc(t, z) == [null |-> FALSE, realm_name |-> "", zonegroup_name |-> "",
                  zone_name |-> z, realm_token |-> t]

\* HandleCommandResult(retval, stdout, stderr), or the (retcode, message, stderr)
\* tuple of an except branch; kind "crash" is an exception that leaves the handler
\* data is what stdout carries beyond a fixed text (a list, a diff)
ResultData(rc, out, err, data) ==
    [kind |-> "result", rc |-> rc, out |-> out, err |-> err, data |-> data]
Result(rc, out, err) == ResultData(rc, out, err, <<>>)
NoResult == [kind |-> "none", rc |-> 0, out |-> "", err |-> <<>>, data |-> <<>>]
Crash(what) == [kind |-> "crash", rc |-> 0, out |-> what, err |-> <<>>, data |-> <<>>]

\* RGWAMException(message, retcode, stderr); stderr names the failing step
RGWAMException(message, retcode, step, i) ==
    [retcode |-> retcode, message |-> message, stderr |-> <<step, i>>]

\* history: no failed attempt came before
NoPrev == [failed |-> FALSE, rid |-> 0, gid |-> 0, zid |-> 0]

IdleFrame == [pc |-> "idle", cmd |-> "", specs |-> <<>>, idx |-> 0, start |-> FALSE,
              available |-> TRUE, result |-> NoResult, trace |-> <<>>, seen |-> 0,
              rid |-> 0, gid |-> 0, zid |-> 0, ret |-> NoResult, args |-> <<>>, diff |-> {},
              pre |-> [rid |-> 0, gid |-> 0, zid |-> 0], prev |-> NoPrev]

Event(i, ev, ok) == [i |-> i, ev |-> ev, ok |-> ok]

AdminEvents == {"realm_list", "realm_create", "zonegroup_create", "zone_create",
                "zone_modify", "user_create", "period_commit"}

\* the text of a name, of an identifier, of a daemon's endpoint
StrBytes(n) ==
    CASE n = "r1" -> <<114, 49>> [] n = "r2" -> <<114, 50>>
      [] n = "ak" -> <<97, 107>> [] n = "sk" -> <<115, 107>>
      [] OTHER -> <<>>
IdBytes(id) == <<48 + id>>
EndpointBytes(zid) == <<104>> \o IdBytes(zid)

(***************************************************************************)
(* check_orchestrator (module.py 96-107).                                  *)
(***************************************************************************)
\* the wrapper without its check
CheckOrchestratorAlways(available) == TRUE

\* whether the wrapper runs the wrapped handler
CheckOrchestrator(available) == available

GateResult == Result(-EINVAL, "", <<"Cephadm is not available">>)

(***************************************************************************)
(* _parse_rgw_specs (module.py 153-165).                                   *)
(***************************************************************************)
\* RGWSpec.from_json
FromJson(doc) == [rgw_realm |-> doc.realm_name, rgw_zonegroup |-> doc.zonegroup_name,
                  rgw_zone |-> doc.zone_name, rgw_realm_token |-> doc.realm_token]

\* RGWSpec.validate: "" when the spec is well formed, else the error it raises
Validate(spec) ==
    IF spec.rgw_realm_token # <<>>
    THEN IF spec.rgw_realm # "" \/ spec.rgw_zonegroup # "" THEN "InvalidSpec"
         ELSE IF spec.rgw_zone = "" THEN "MissingArguments" ELSE ""
    ELSE IF spec.rgw_realm # "" /\ spec.rgw_zonegroup # "" /\ spec.rgw_zone # "" THEN ""
         ELSE "MissingArguments"

RECURSIVE ParseLoop(_, _, _)
\* the for loop of lines 160-164 from document k on: the first invalid document raises
ParseLoop(specs, k, acc) ==
    IF k > Len(specs) THEN [kind |-> "specs", specs |-> acc, e |-> RGWAMException("", 0, "", 0)]
    ELSE LET rgw_spec == FromJson(specs[k])
             bad == Validate(rgw_spec)
         IN IF bad # ""
            THEN [kind |-> "raise", specs |-> <<>>, e |-> RGWAMException(bad, -EINVAL, "validate", k)]
            ELSE ParseLoop(specs, k + 1, Append(acc, rgw_spec))

\* the filter that keeps every document
NotNoneAll(o) == TRUE

NotNone(o) == ~o.null

\* the document is empty or makes a spec that validates
ValidDoc(o) == o.null \/ Validate(FromJson(o)) = ""

\* history: the position of the first document that does not validate (0: none)
\* and the number of specs the documents before it make
FirstInvalid(inbuf) ==
    LET bad == {k \in 1..Len(inbuf) : ~ValidDoc(inbuf[k])}
    IN IF bad = {} THEN 0 ELSE CHOOSE k \in bad : \A j \in bad : k <= j

ValidBefore(inbuf) ==
    Cardinality({k \in 1..(FirstInvalid(inbuf) - 1) : ~inbuf[k].null})

\* a parser that leaves out the documents that do not validate
ParseRgwSpecsValidOnly(inbuf) ==
    LET q == SelectSeq(SelectSeq(inbuf, NotNone), ValidDoc)
    IN [kind |-> "specs", specs |-> [k \in 1..Len(q) |-> FromJson(q[k])],
        e |-> RGWAMException("", 0, "", 0)]

ParseRgwSpecs(inbuf) == ParseLoop(SelectSeq(inbuf, NotNone), 1, <<>>)

(***************************************************************************)
(* The realm token (module.py 205-208): RealmToken(...).to_json(), encoded *)
(* as UTF-8, wrapped in base64.  Text is a sequence of ASCII codes.        *)
(***************************************************************************)
KeyRealmName == <<114, 101, 97, 108, 109, 95, 110, 97, 109, 101>>
KeyRealmId == <<114, 101, 97, 108, 109, 95, 105, 100>>
KeyIsPrimary == <<105, 115, 95, 112, 114, 105, 109, 97, 114, 121>>
KeyEndpoint == <<101, 110, 100, 112, 111, 105, 110, 116>>
KeyAccessKey == <<97, 99, 99, 101, 115, 115, 95, 107, 101, 121>>
KeySecret == <<115, 101, 99, 114, 101, 116>>

\* line 205
TokenKeys == <<KeyRealmName, KeyRealmId, KeyIsPrimary, KeyEndpoint, KeyAccessKey, KeySecret>>

LitTrue == <<116, 114, 117, 101>>
LitFalse == <<102, 97, 108, 115, 101>>

JStr(v) == [t |-> "str", s |-> v, b |-> FALSE]
JBool(v) == [t |-> "bool", s |-> <<>>, b |-> v]

\* RealmToken(**{k: realm_info[k] for k in keys}) as the members of its JSON object
TokenMembers(tok) ==
    << <<KeyRealmName, JStr(tok.realm_name)>>, <<KeyRealmId, JStr(tok.realm_id)>>,
       <<KeyIsPrimary, JBool(tok.is_primary)>>, <<KeyEndpoint, JStr(tok.endpoint)>>,
       <<KeyAccessKey, JStr(tok.access_key)>>, <<KeySecret, JStr(tok.secret)>> >>

Quoted(v) == <<34>> \o v \o <<34>>

JsonValue(v) == IF v.t = "str" THEN Quoted(v.s) ELSE IF v.b THEN LitTrue ELSE LitFalse

RECURSIVE JsonMembers(_, _)
\* "key": value, "key": value, ...
JsonMembers(m, k) ==
    IF k > Len(m) THEN <<>>
    ELSE Quoted(m[k][1]) \o <<58, 32>> \o JsonValue(m[k][2])
         \o (IF k < Len(m) THEN <<44, 32>> ELSE <<>>) \o JsonMembers(m, k + 1)

\* json.dumps of a flat object
JsonDumps(m) == <<123>> \o JsonMembers(m, 1) \o <<125>>

\* RealmToken.to_json()
ToJson(tok) == JsonDumps(TokenMembers(tok))

\* the base64 alphabet: the character of a 6-bit value
B64Char(v) ==
    IF v < 26 THEN 65 + v ELSE IF v < 52 THEN 97 + (v - 26)
    ELSE IF v < 62 THEN 48 + (v - 52) ELSE IF v = 62 THEN 43 ELSE 47

B64Pad == <<61>>

RECURSIVE B64Groups(_, _)
\* base64.b64encode from byte k on: 3 bytes make 4 characters, the rest is padded
B64Groups(b, k) ==
    LET left == Len(b) - k + 1
    IN IF left <= 0 THEN <<>>
       ELSE IF left = 1
       THEN <<B64Char(b[k] \div 4), B64Char((b[k] % 4) * 16)>> \o B64Pad \o B64Pad
       ELSE IF left = 2
       THEN <<B64Char(b[k] \div 4), B64Char((b[k] % 4) * 16 + b[k + 1] \div 16),
              B64Char((b[k + 1] % 16) * 4)>> \o B64Pad
       ELSE <<B64Char(b[k] \div 4), B64Char((b[k] % 4) * 16 + b[k + 1] \div 16),
              B64Char((b[k + 1] % 16) * 4 + b[k + 2] \div 64), B64Char(b[k + 2] % 64)>>
            \o B64Groups(b, k + 3)

B64Encode(b) == B64Groups(b, 1)

\* the token without its base64 envelope
EncodeTokenPlain(tok) == ToJson(tok)

\* lines 207-208: realm_token.to_json().encode('utf-8'), base64, decode('utf-8')
EncodeToken(tok) == B64Encode(ToJson(tok))

(***************************************************************************)
(* Decoding a token (RealmToken.from_base64_str in ceph.rgw.types), after  *)
(* the design document, section 4.4 and section 6.                         *)
(***************************************************************************)
\* the 6-bit value of a base64 character, 64 for one outside the alphabet
B64Value(ch) ==
    IF ch >= 65 /\ ch <= 90 THEN ch - 65
    ELSE IF ch >= 97 /\ ch <= 122 THEN ch - 97 + 26
    ELSE IF ch >= 48 /\ ch <= 57 THEN ch - 48 + 52
    ELSE IF ch = 43 THEN 62 ELSE IF ch = 47 THEN 63 ELSE 64

BadBytes == <<256>>

RECURSIVE B64Ungroup(_, _)
\* the bytes of the groups from character k on; BadBytes for an invalid envelope
B64Ungroup(s, k) ==
    IF k > Len(s) THEN <<>>
    ELSE LET last == k + 3 = Len(s)
             v1 == B64Value(s[k])
             v2 == B64Value(s[k + 1])
             p3 == s[k + 2] = 61
             p4 == s[k + 3] = 61
             v3 == B64Value(s[k + 2])
             v4 == B64Value(s[k + 3])
             rest == B64Ungroup(s, k + 4)
         IN IF v1 = 64 \/ v2 = 64 \/ (p3 /\ ~p4) \/ ((p3 \/ p4) /\ ~last)
               \/ (~p3 /\ v3 = 64) \/ (~p4 /\ v4 = 64) \/ rest = BadBytes
            THEN BadBytes
            ELSE IF p3 THEN <<v1 * 4 + v2 \div 16>>
            ELSE IF p4 THEN <<v1 * 4 + v2 \div 16, (v2 % 16) * 16 + v3 \div 4>>
            ELSE <<v1 * 4 + v2 \div 16, (v2 % 16) * 16 + v3 \div 4, (v3 % 4) * 64 + v4>> \o rest

B64Decode(s) == IF Len(s) % 4 # 0 THEN BadBytes ELSE B64Ungroup(s, 1)

RECURSIVE SkipSpace(_, _)
SkipSpace(b, i) == IF i <= Len(b) /\ b[i] = 32 THEN SkipSpace(b, i + 1) ELSE i

RECURSIVE StringEnd(_, _)
\* the index of the quote closing the string whose text starts at i, 0 if none
StringEnd(b, i) ==
    IF i > Len(b) \/ b[i] = 92 THEN 0 ELSE IF b[i] = 34 THEN i ELSE StringEnd(b, i + 1)

Slice(b, i, j) == SubSeq(b, i, j)

HasAt(b, i, lit) == i + Len(lit) - 1 <= Len(b) /\ SubSeq(b, i, i + Len(lit) - 1) = lit

JBad == [t |-> "bad", s |-> <<>>, b |-> FALSE]

\* a value at i: [v, next]; v.t = "bad" when there is none
JsonValueAt(b, i) ==
    IF i <= Len(b) /\ b[i] = 34
    THEN LET e == StringEnd(b, i + 1)
         IN IF e = 0 THEN [v |-> JBad, next |-> i]
            ELSE [v |-> JStr(Slice(b, i + 1, e - 1)), next |-> e + 1]
    ELSE IF HasAt(b, i, LitTrue) THEN [v |-> JBool(TRUE), next |-> i + Len(LitTrue)]
    ELSE IF HasAt(b, i, LitFalse) THEN [v |-> JBool(FALSE), next |-> i + Len(LitFalse)]
    ELSE [v |-> JBad, next |-> i]

BadMembers == << <<>> >>

RECURSIVE JsonMembersAt(_, _, _)
\* the members from i on, up to the closing brace, which must end the text
JsonMembersAt(b, i, acc) ==
    LET k == JsonValueAt(b, SkipSpace(b, i))
        colon == SkipSpace(b, k.next)
        v == JsonValueAt(b, SkipSpace(b, colon + 1))
        after == SkipSpace(b, v.next)
    IN IF k.v.t # "str" \/ colon > Len(b) \/ b[colon] # 58 \/ v.v.t = "bad" \/ after > Len(b)
       THEN BadMembers
       ELSE IF b[after] = 125
       THEN IF SkipSpace(b, after + 1) = Len(b) + 1 THEN Append(acc, <<k.v.s, v.v>>) ELSE BadMembers
       ELSE IF b[after] = 44 THEN JsonMembersAt(b, after + 1, Append(acc, <<k.v.s, v.v>>))
       ELSE BadMembers

\* json.loads of a flat object: its members, BadMembers when the text is no such object
JsonLoads(b) ==
    LET i == SkipSpace(b, 1)
    IN IF b = BadBytes \/ i > Len(b) \/ b[i] # 123 THEN BadMembers
       ELSE IF SkipSpace(b, i + 1) <= Len(b) /\ b[SkipSpace(b, i + 1)] = 125
       THEN IF SkipSpace(b, SkipSpace(b, i + 1) + 1) = Len(b) + 1 THEN <<>> ELSE BadMembers
       ELSE JsonMembersAt(b, i + 1, <<>>)

\* the value of key in the members (the last one wins), JBad when absent
Member(m, key) ==
    LET at == {k \in 1..Len(m) : m[k][1] = key}
    IN IF at = {} THEN JBad ELSE m[CHOOSE k \in at : \A j \in at : j <= k][2]

TokenDecodeError == [ok |-> FALSE,
                     token |-> [realm_name |-> <<>>, realm_id |-> <<>>, is_primary |-> FALSE,
                                endpoint |-> <<>>, access_key |-> <<>>, secret |-> <<>>]]

\* exactly the six fields, is_primary a boolean and the others text
DecodeToken(s) ==
    LET m == JsonLoads(B64Decode(s))
        keys == {TokenKeys[k] : k \in 1..Len(TokenKeys)}
    IN IF m = BadMembers \/ {m[k][1] : k \in 1..Len(m)} # keys
          \/ Member(m, KeyIsPrimary).t # "bool"
          \/ \E key \in keys \ {KeyIsPrimary} : Member(m, key).t # "str"
       THEN TokenDecodeError
       ELSE [ok |-> TRUE,
             token |-> [realm_name |-> Member(m, KeyRealmName).s,
                        realm_id |-> Member(m, KeyRealmId).s,
                        is_primary |-> Member(m, KeyIsPrimary).b,
                        endpoint |-> Member(m, KeyEndpoint).s,
                        access_key |-> Member(m, KeyAccessKey).s,
                        secret |-> Member(m, KeySecret).s]]

(***************************************************************************)
(* Frames.                                                                 *)
(***************************************************************************)
Spec_(c) == call[c].specs[call[c].idx]

Log(c, ev, ok) == Append(call[c].trace, Event(call[c].idx, ev, ok))

\* the handler returns `result`
Finish(c, f, result) == call' = [call EXCEPT ![c] = [f EXCEPT !.pc = "done", !.result = result]]

\* the handler is at the next step
Goto(c, f, pc) == call' = [call EXCEPT ![c] = [f EXCEPT !.pc = pc]]

CanInvoke(c) == call[c].pc = "idle" /\ ncalls < MaxCalls

\* history: nothing to retry
NoLast == [failed |-> FALSE, specs |-> <<>>, rid |-> 0, gid |-> 0, zid |-> 0]

\* history: a realm bootstrap of one spec that failed in the engine, with the
\* objects it had resolved or created by then
LastOf(f) ==
    IF f.cmd = "realm bootstrap" /\ Len(f.specs) = 1 /\ f.result.kind = "result" /\ f.result.rc # 0
    THEN [failed |-> TRUE, specs |-> f.specs, rid |-> f.rid, gid |-> f.gid, zid |-> f.zid]
    ELSE NoLast

\* history: the frame repeats the spec of the failed attempt that returned last
PrevOf(specs) ==
    IF lastcmd.failed /\ specs = lastcmd.specs
    THEN [failed |-> TRUE, rid |-> lastcmd.rid, gid |-> lastcmd.gid, zid |-> lastcmd.zid]
    ELSE NoPrev

\* the result is handed to the caller and the frame is gone
Return(c) ==
    /\ call[c].pc = "done"
    /\ call' = [call EXCEPT ![c] = IdleFrame]
    /\ lastcmd' = LastOf(call[c])
    /\ UNCHANGED <<topology, ncalls>>

(***************************************************************************)
(* _cmd_rgw_realm_bootstrap (module.py 120-151).                           *)
(***************************************************************************)
BootstrapOk ==
    Result(0, "Realm(s) created correctly. Please, use 'ceph rgw realm tokens' to get the token.", <<>>)

InvalidArguments == Result(-EINVAL, "", <<"Invalid arguments: -h or --help for usage">>)

\* the argument check that is content with one name
BootstrapSpecsAnyName(realm_name, zonegroup_name, zone_name, inbuf) ==
    IF inbuf # <<>> THEN ParseRgwSpecs(inbuf)
    ELSE IF realm_name # "" \/ zonegroup_name # "" \/ zone_name # ""
         THEN [kind |-> "specs",
               specs |-> <<[rgw_realm |-> realm_name, rgw_zonegroup |-> zonegroup_name,
                            rgw_zone |-> zone_name, rgw_realm_token |-> <<>>]>>,
               e |-> RGWAMException("", 0, "", 0)]
         ELSE [kind |-> "return", specs |-> <<>>, e |-> RGWAMException("", 0, "", 0)]

\* lines 132-142: the specs to bootstrap, a return, or an exception
BootstrapSpecs(realm_name, zonegroup_name, zone_name, inbuf) ==
    IF inbuf # <<>> THEN ParseRgwSpecs(inbuf)
    ELSE IF realm_name # "" /\ zonegroup_name # "" /\ zone_name # ""
         THEN [kind |-> "specs",
               specs |-> <<[rgw_realm |-> realm_name, rgw_zonegroup |-> zonegroup_name,
                            rgw_zone |-> zone_name, rgw_realm_token |-> <<>>]>>,
               e |-> RGWAMException("", 0, "", 0)]
         ELSE [kind |-> "return", specs |-> <<>>, e |-> RGWAMException("", 0, "", 0)]

\* lines 147-149: what the handler returns for an RGWAMException
ExceptResult(e) == Result(e.retcode, e.message, e.stderr)

\* lines 144-145, 151: realm_bootstrap returned for the spec at idx: next spec, or done
BootstrapNext(c, f) ==
    IF f.idx < Len(f.specs)
    THEN call' = [call EXCEPT ![c] = [f EXCEPT !.idx = f.idx + 1, !.pc = "b_query",
                                             !.seen = 0, !.rid = 0, !.gid = 0, !.zid = 0,
                                             !.pre = IdleFrame.pre]]
    ELSE Finish(c, f, BootstrapOk)

\* the except branch inside the loop: the exception is logged and the loop goes on
BootstrapRaiseContinue(c, f, e) == BootstrapNext(c, f)

\* lines 144-149: an RGWAMException raised by the engine ends the loop and the handler
BootstrapRaise(c, f, e) == Finish(c, f, ExceptResult(e))

CmdRealmBootstrap(c, available, realm_name, zonegroup_name, zone_name, start_radosgw, inbuf) ==
    /\ CanInvoke(c)
    /\ ncalls' = ncalls + 1
    /\ UNCHANGED <<topology>>
    /\ LET f == [IdleFrame EXCEPT !.cmd = "realm bootstrap", !.start = start_radosgw,
                                  !.available = available,
                                  !.args = [realm_name |-> realm_name,
                                            zonegroup_name |-> zonegroup_name,
                                            zone_name |-> zone_name, inbuf |-> inbuf # <<>>,
                                            invalid |-> FirstInvalid(inbuf),
                                            before |-> ValidBefore(inbuf)]]
           p == BootstrapSpecs(realm_name, zonegroup_name, zone_name, inbuf)
       IN IF ~CheckOrchestrator(available) THEN Finish(c, f, GateResult)
          ELSE IF p.kind = "return" THEN Finish(c, f, InvalidArguments)
          ELSE IF p.kind = "raise" THEN BootstrapRaise(c, f, p.e)
          ELSE IF p.specs = <<>> THEN Finish(c, f, BootstrapOk)
          ELSE call' = [call EXCEPT ![c] = [f EXCEPT !.specs = p.specs, !.idx = 1,
                                                      !.pc = "b_query",
                                                      !.prev = PrevOf(p.specs)]]

(***************************************************************************)
(* RGWAM.realm_bootstrap (ceph.rgw.rgwam_core), after the design document, *)
(* section 4.5, steps 1-7.  Raise is the handler's except branch.          *)
(***************************************************************************)
RealmNamed(n) == {r \in realms : r.name = n}
ZonegroupNamed(rid, n) == {g \in zonegroups : g.realm = rid /\ g.name = n}
ZoneNamed(gid, n) == {z \in zones : z.zonegroup = gid /\ z.name = n}
OtherMasters(rid, n) == {g \in zonegroups : g.realm = rid /\ g.is_master /\ g.name # n}
\* the identifier the admin tool gives a new object: unused so far
NewId(S) == Cardinality(S) + 1
MinId(S) == CHOOSE x \in {e.id : e \in S} : \A y \in {e.id : e \in S} : x <= y

\* history, for the statement of idempotence: the realm, zonegroup and zone of the
\* requested names as they exist when the spec is taken up (0: absent)
Existing(spec) ==
    LET rs == RealmNamed(spec.rgw_realm)
        gs == IF rs = {} THEN {} ELSE ZonegroupNamed(MinId(rs), spec.rgw_zonegroup)
        zs == IF gs = {} THEN {} ELSE ZoneNamed(MinId(gs), spec.rgw_zone)
    IN [rid |-> IF rs = {} THEN 0 ELSE MinId(rs), gid |-> IF gs = {} THEN 0 ELSE MinId(gs),
        zid |-> IF zs = {} THEN 0 ELSE MinId(zs)]

\* step 1: query the existing realms
BQuery(c) ==
    /\ call[c].pc = "b_query"
    /\ UNCHANGED <<topology, ncalls>>
    /\ \/ \E rc \in ToolFailCodes :
            BootstrapRaise(c, [call[c] EXCEPT !.trace = Log(c, "realm_list", FALSE)],
                           RGWAMException("AdminToolError", rc, "realm_list", call[c].idx))
       \/ LET found == RealmNamed(Spec_(c).rgw_realm)
          IN Goto(c, [call[c] EXCEPT !.trace = Log(c, "realm_list", TRUE),
                                     !.seen = IF found = {} THEN 0 ELSE MinId(found),
                                     !.pre = Existing(Spec_(c))],
                  "b_realm")

ReuseRealmNever(seen) == FALSE

\* step 1: a realm of the requested name is reused
ReuseRealm(seen) == seen # 0

\* step 2: create the realm if step 1 did not find it
BRealm(c) ==
    /\ call[c].pc = "b_realm"
    /\ UNCHANGED <<zonegroups, zones, daemons, ncalls>>
    /\ IF ReuseRealm(call[c].seen)
       THEN /\ Goto(c, [call[c] EXCEPT !.rid = call[c].seen], "b_zonegroup")
            /\ UNCHANGED <<realms, staged>>
       ELSE \/ /\ \E rc \in ToolFailCodes :
                    BootstrapRaise(c, [call[c] EXCEPT !.trace = Log(c, "realm_create", FALSE)],
                                   RGWAMException("AdminToolError", rc, "realm_create", call[c].idx))
               /\ UNCHANGED <<realms, staged>>
            \/ /\ realms' = realms \cup {[name |-> Spec_(c).rgw_realm, id |-> NewId(realms)]}
               /\ staged' = TRUE
               /\ Goto(c, [call[c] EXCEPT !.trace = Log(c, "realm_create", TRUE),
                                          !.rid = NewId(realms)], "b_zonegroup")

\* step 3: create the master zonegroup if absent; another master is a conflict
BZonegroup(c) ==
    /\ call[c].pc = "b_zonegroup"
    /\ UNCHANGED <<realms, zones, daemons, ncalls>>
    /\ LET name == Spec_(c).rgw_zonegroup
           found == ZonegroupNamed(call[c].rid, name)
       IN IF OtherMasters(call[c].rid, name) # {}
          THEN /\ BootstrapRaise(c, call[c],
                                 RGWAMException("ConflictError", -EINVAL, "zonegroup_create", call[c].idx))
               /\ UNCHANGED <<zonegroups, staged>>
          ELSE IF found # {}
          THEN /\ Goto(c, [call[c] EXCEPT !.gid = MinId(found)], "b_zone")
               /\ UNCHANGED <<zonegroups, staged>>
          ELSE \/ /\ \E rc \in ToolFailCodes :
                       BootstrapRaise(c, [call[c] EXCEPT !.trace = Log(c, "zonegroup_create", FALSE)],
                                      RGWAMException("AdminToolError", rc, "zonegroup_create", call[c].idx))
                  /\ UNCHANGED <<zonegroups, staged>>
               \/ /\ zonegroups' = zonegroups \cup
                        {[name |-> name, id |-> NewId(zonegroups), realm |-> call[c].rid,
                          is_master |-> TRUE, endpoints |-> <<>>]}
                     /\ staged' = TRUE
                  /\ Goto(c, [call[c] EXCEPT !.trace = Log(c, "zonegroup_create", TRUE),
                                             !.gid = NewId(zonegroups)], "b_zone")

\* step 4, first half: create the master zone if absent
BZone(c) ==
    /\ call[c].pc = "b_zone"
    /\ UNCHANGED <<realms, zonegroups, daemons, ncalls>>
    /\ LET name == Spec_(c).rgw_zone
           found == ZoneNamed(call[c].gid, name)
       IN IF found # {}
          THEN /\ Goto(c, [call[c] EXCEPT !.zid = MinId(found)], "b_keys")
               /\ UNCHANGED <<zones, staged>>
          ELSE \/ /\ \E rc \in ToolFailCodes :
                       BootstrapRaise(c, [call[c] EXCEPT !.trace = Log(c, "zone_create", FALSE)],
                                      RGWAMException("AdminToolError", rc, "zone_create", call[c].idx))
                  /\ UNCHANGED <<zones, staged>>
               \/ /\ zones' = zones \cup
                        {[name |-> name, id |-> NewId(zones), zonegroup |-> call[c].gid,
                          is_master |-> TRUE, access_key |-> "", secret |-> ""]}
                     /\ staged' = TRUE
                  /\ Goto(c, [call[c] EXCEPT !.trace = Log(c, "zone_create", TRUE),
                                             !.zid = NewId(zones)], "b_keys")

TheZone(zid) == CHOOSE z \in zones : z.id = zid

\* step 4, second half: generate the system user's key pair if the zone has none
BKeys(c) ==
    /\ call[c].pc = "b_keys"
    /\ UNCHANGED <<realms, zonegroups, daemons, ncalls>>
    /\ LET z == TheZone(call[c].zid)
       IN IF z.access_key # "" /\ z.secret # ""
          THEN /\ Goto(c, call[c], "b_commit")
               /\ UNCHANGED <<zones, staged>>
          ELSE \/ /\ \E rc \in ToolFailCodes :
                       BootstrapRaise(c, [call[c] EXCEPT !.trace = Log(c, "user_create", FALSE)],
                                      RGWAMException("AdminToolError", rc, "user_create", call[c].idx))
                  /\ UNCHANGED <<zones, staged>>
               \/ /\ zones' = (zones \ {z}) \cup {[z EXCEPT !.access_key = "ak", !.secret = "sk"]}
                  /\ staged' = TRUE
                  /\ Goto(c, [call[c] EXCEPT !.trace = Log(c, "user_create", TRUE)], "b_commit")

\* step 5: commit the period; a failure aborts
BCommit(c) ==
    /\ call[c].pc = "b_commit"
    /\ UNCHANGED <<realms, zonegroups, zones, daemons, ncalls>>
    /\ \/ /\ \E rc \in ToolFailCodes :
               BootstrapRaise(c, [call[c] EXCEPT !.trace = Log(c, "period_commit", FALSE)],
                              RGWAMException("AdminToolError", rc, "period_commit", call[c].idx))
          /\ UNCHANGED staged
       \/ /\ staged' = FALSE
          /\ Goto(c, [call[c] EXCEPT !.trace = Log(c, "period_commit", TRUE)], "b_deploy")

\* step 6: if start_radosgw, gate on the orchestrator's answer and apply the service spec
BDeploy(c) ==
    /\ call[c].pc = "b_deploy"
    /\ UNCHANGED <<realms, zonegroups, zones, staged, ncalls>>
    /\ IF ~call[c].start
       THEN /\ BootstrapNext(c, call[c])
            /\ UNCHANGED daemons
       ELSE \/ /\ BootstrapRaise(c, call[c],
                                 RGWAMException("LifecycleUnavailable", -EINVAL, "available", call[c].idx))
               /\ UNCHANGED daemons
            \/ /\ BootstrapRaise(c, [call[c] EXCEPT !.trace = Log(c, "apply", FALSE)],
                                 RGWAMException("LifecycleError", -EINVAL, "apply", call[c].idx))
               /\ UNCHANGED daemons
            \/ /\ daemons' = daemons \cup {call[c].zid}
               /\ BootstrapNext(c, [call[c] EXCEPT !.trace = Log(c, "apply", TRUE)])

(***************************************************************************)
(* _cmd_rgw_zone_create (module.py 226-257).                               *)
(***************************************************************************)
\* lines 237-246: the specs to create, a return, or an exception
ZoneCreateSpecs(zone_name, realm_token, inbuf) ==
    IF inbuf # <<>> THEN ParseRgwSpecs(inbuf)
    ELSE IF zone_name # "" /\ realm_token # <<>>
         THEN [kind |-> "specs",
               specs |-> <<[rgw_realm |-> "", rgw_zonegroup |-> "",
                            rgw_zone |-> zone_name, rgw_realm_token |-> realm_token]>>,
               e |-> RGWAMException("", 0, "", 0)]
         ELSE [kind |-> "return", specs |-> <<>>, e |-> RGWAMException("", 0, "", 0)]

\* line 257: return HandleCommandResult(retval, out, err); the three names are
\* bound only by line 249
ZoneCreateReturn(ret) == IF ret.kind = "none" THEN Crash("UnboundLocalError") ELSE ret

\* the except branch that returns success
ZoneCreateRaiseOk(c, f, e) == Finish(c, f, Result(0, e.message, e.stderr))

\* lines 253-255
ZoneCreateRaise(c, f, e) == Finish(c, f, ExceptResult(e))

\* the loop without lines 250-251
ZoneCreateNextNoBreak(c, f, ret) ==
    IF f.idx < Len(f.specs)
    THEN call' = [call EXCEPT ![c] = [f EXCEPT !.idx = f.idx + 1, !.pc = "z_locate", !.ret = ret,
                                             !.rid = 0, !.gid = 0, !.zid = 0]]
    ELSE Finish(c, [f EXCEPT !.ret = ret], ZoneCreateReturn(ret))

\* lines 248-251, 257: zone_create returned ret for the spec at idx
ZoneCreateNext(c, f, ret) ==
    IF ret.rc = 0 /\ f.idx < Len(f.specs)
    THEN call' = [call EXCEPT ![c] = [f EXCEPT !.idx = f.idx + 1, !.pc = "z_locate", !.ret = ret,
                                             !.rid = 0, !.gid = 0, !.zid = 0]]
    ELSE Finish(c, [f EXCEPT !.ret = ret], ZoneCreateReturn(ret))

CmdZoneCreate(c, available, zone_name, realm_token, start_radosgw, inbuf) ==
    /\ CanInvoke(c)
    /\ ncalls' = ncalls + 1
    /\ UNCHANGED topology
    /\ LET f == [IdleFrame EXCEPT !.cmd = "zone create", !.start = start_radosgw,
                                  !.available = available,
                                  !.args = [zone_name |-> zone_name, realm_token |-> realm_token,
                                            inbuf |-> inbuf # <<>>,
                                            invalid |-> FirstInvalid(inbuf),
                                            before |-> ValidBefore(inbuf)]]
           p == ZoneCreateSpecs(zone_name, realm_token, inbuf)
       IN IF ~CheckOrchestrator(available) THEN Finish(c, f, GateResult)
          ELSE IF p.kind = "return" THEN Finish(c, f, InvalidArguments)
          ELSE IF p.kind = "raise" THEN ZoneCreateRaise(c, f, p.e)
          ELSE IF p.specs = <<>> THEN Finish(c, f, ZoneCreateReturn(f.ret))
          ELSE call' = [call EXCEPT ![c] = [f EXCEPT !.specs = p.specs, !.idx = 1,
                                                      !.pc = "z_locate"]]

(***************************************************************************)
(* RGWAM.zone_create (ceph.rgw.rgwam_core), after the design document,     *)
(* section 4.5.  A failing admin tool call is raised, or returned as a     *)
(* non-zero (retval, out, err).                                            *)
(***************************************************************************)
ZoneOk == Result(0, "zone created", <<>>)

\* a failure of the step: raised, or returned as a triple
ZoneFail(c, f, message, rc, step) ==
    \/ ZoneCreateRaise(c, f, RGWAMException(message, rc, step, f.idx))
    \/ ZoneCreateNext(c, f, Result(rc, message, <<step, f.idx>>))

MasterZonegroups(rid) == {g \in zonegroups : g.realm = rid /\ g.is_master}

\* decode the token and locate its realm; an absent realm is a conflict
ZLocate(c) ==
    /\ call[c].pc = "z_locate"
    /\ UNCHANGED <<topology, ncalls>>
    /\ LET d == DecodeToken(Spec_(c).rgw_realm_token)
           found == {r \in realms : StrBytes(r.name) = d.token.realm_name}
       IN IF ~d.ok
          THEN ZoneCreateRaise(c, call[c], RGWAMException("TokenDecodeError", -EINVAL, "decode", call[c].idx))
          ELSE \/ \E rc \in ToolFailCodes :
                    ZoneFail(c, [call[c] EXCEPT !.trace = Log(c, "realm_list", FALSE)],
                             "AdminToolError", rc, "realm_list")
               \/ IF found = {} \/ MasterZonegroups(MinId(found)) = {}
                  THEN ZoneCreateRaise(c, [call[c] EXCEPT !.trace = Log(c, "realm_list", TRUE)],
                                       RGWAMException("ConflictError", -EINVAL, "realm_list", call[c].idx))
                  ELSE Goto(c, [call[c] EXCEPT !.trace = Log(c, "realm_list", TRUE),
                                               !.rid = MinId(found),
                                               !.gid = MinId(MasterZonegroups(MinId(found)))],
                            "z_zone")

\* create the secondary zone, or update the zone of that name
ZZone(c) ==
    /\ call[c].pc = "z_zone"
    /\ UNCHANGED <<realms, zonegroups, daemons, ncalls>>
    /\ LET name == Spec_(c).rgw_zone
           found == ZoneNamed(call[c].gid, name)
           ev == IF found # {} THEN "zone_modify" ELSE "zone_create"
       IN \/ /\ \E rc \in ToolFailCodes :
                  ZoneFail(c, [call[c] EXCEPT !.trace = Log(c, ev, FALSE)], "AdminToolError", rc, ev)
             /\ UNCHANGED <<zones, staged>>
          \/ /\ IF found # {}
                THEN zones' = zones
                ELSE zones' = zones \cup
                        {[name |-> name, id |-> NewId(zones), zonegroup |-> call[c].gid,
                          is_master |-> FALSE, access_key |-> "ak", secret |-> "sk"]}
             /\ staged' = TRUE
             /\ Goto(c, [call[c] EXCEPT !.trace = Log(c, ev, TRUE),
                                        !.zid = IF found # {} THEN MinId(found) ELSE NewId(zones)],
                     "z_commit")

ZCommit(c) ==
    /\ call[c].pc = "z_commit"
    /\ UNCHANGED <<realms, zonegroups, zones, daemons, ncalls>>
    /\ \/ /\ \E rc \in ToolFailCodes :
               ZoneFail(c, [call[c] EXCEPT !.trace = Log(c, "period_commit", FALSE)],
                        "AdminToolError", rc, "period_commit")
          /\ UNCHANGED staged
       \/ /\ staged' = FALSE
          /\ Goto(c, [call[c] EXCEPT !.trace = Log(c, "period_commit", TRUE)], "z_deploy")

ZDeploy(c) ==
    /\ call[c].pc = "z_deploy"
    /\ UNCHANGED <<realms, zonegroups, zones, staged, ncalls>>
    /\ IF ~call[c].start
       THEN /\ ZoneCreateNext(c, call[c], ZoneOk)
            /\ UNCHANGED daemons
       ELSE \/ /\ ZoneCreateRaise(c, call[c],
                                  RGWAMException("LifecycleUnavailable", -EINVAL, "available", call[c].idx))
               /\ UNCHANGED daemons
            \/ /\ ZoneCreateRaise(c, [call[c] EXCEPT !.trace = Log(c, "apply", FALSE)],
                                  RGWAMException("LifecycleError", -EINVAL, "apply", call[c].idx))
               /\ UNCHANGED daemons
            \/ /\ daemons' = daemons \cup {call[c].zid}
               /\ ZoneCreateNext(c, [call[c] EXCEPT !.trace = Log(c, "apply", TRUE)], ZoneOk)

(***************************************************************************)
(* list_realm_tokens (module.py 194-211).                                  *)
(***************************************************************************)
MasterZones(gid) == {z \in zones : z.zonegroup = gid /\ z.is_master}

\* RGWAM.get_realms_info for one realm (design document, section 4.5): the master
\* zone, its daemon's endpoint and its keys, each empty when missing
RealmInfo(r) ==
    LET mg == MasterZonegroups(r.id)
        mz == IF mg = {} THEN {} ELSE MasterZones(MinId(mg))
        z == IF mz = {} THEN [id |-> 0, access_key |-> "", secret |-> ""]
             ELSE CHOOSE x \in mz : x.id = MinId(mz)
    IN [realm_name |-> r.name, realm_id |-> IdBytes(r.id), is_primary |-> TRUE,
        master_zone_id |-> z.id,
        endpoint |-> IF z.id \in daemons THEN EndpointBytes(z.id) ELSE <<>>,
        access_key |-> StrBytes(z.access_key), secret |-> StrBytes(z.secret)]

RECURSIVE InIdOrder(_)
\* the elements of S by increasing id
InIdOrder(S) ==
    IF S = {} THEN <<>>
    ELSE LET x == CHOOSE e \in S : e.id = MinId(S) IN <<x>> \o InIdOrder(S \ {x})

\* RGWAM.get_realms_info: one record per realm, as the admin tool lists them
GetRealmsInfo == [k \in 1..Cardinality(realms) |-> RealmInfo(InIdOrder(realms)[k])]

NoMasterZone == "realm has no master zone"
NoEndpoint == "master zone has no endpoint"
NoKeys == "master zone has no access/secret keys"

\* the checks in another order: the endpoint first
RealmEntryEndpointFirst(realm_info) ==
    IF realm_info.endpoint = <<>>
    THEN [realm |-> realm_info.realm_name, marker |-> NoEndpoint, token |-> <<>>]
    ELSE IF realm_info.master_zone_id = 0
    THEN [realm |-> realm_info.realm_name, marker |-> NoMasterZone, token |-> <<>>]
    ELSE [realm |-> realm_info.realm_name, marker |-> NoKeys, token |-> <<>>]

\* lines 198-209: the entry of one realm; marker is "" when the token is given
RealmEntry(realm_info) ==
    IF realm_info.master_zone_id = 0
    THEN [realm |-> realm_info.realm_name, marker |-> NoMasterZone, token |-> <<>>]
    ELSE IF realm_info.endpoint = <<>>
    THEN [realm |-> realm_info.realm_name, marker |-> NoEndpoint, token |-> <<>>]
    ELSE IF ~(realm_info.access_key # <<>> /\ realm_info.secret # <<>>)
    THEN [realm |-> realm_info.realm_name, marker |-> NoKeys, token |-> <<>>]
    ELSE [realm |-> realm_info.realm_name, marker |-> "",
          token |-> EncodeToken([realm_name |-> StrBytes(realm_info.realm_name),
                                 realm_id |-> realm_info.realm_id,
                                 is_primary |-> realm_info.is_primary,
                                 endpoint |-> realm_info.endpoint,
                                 access_key |-> realm_info.access_key,
                                 secret |-> realm_info.secret])]

\* lines 196-209: the loop over get_realms_info()
RealmsInfo(infos) == [k \in 1..Len(infos) |-> RealmEntry(infos[k])]

CmdRealmTokens(c) ==
    /\ CanInvoke(c)
    /\ ncalls' = ncalls + 1
    /\ UNCHANGED topology
    /\ LET realms_info == RealmsInfo(GetRealmsInfo)
       IN Finish(c, [IdleFrame EXCEPT !.cmd = "realm tokens"],
                 ResultData(0, "json.dumps(realms_info)", <<>>, realms_info))

(***************************************************************************)
(* _cmd_rgw_zonegroup_create (module.py 259-276) and RGWAM.zonegroup_create*)
(* (design document, section 4.5).                                         *)
(***************************************************************************)
\* lines 272-274
TupleRaise(c, f, e) == Finish(c, f, ExceptResult(e))

\* the triple without what stdout carries
TupleReturnNoData(c, f, ret) == Finish(c, f, Result(ret.rc, ret.out, ret.err))

\* line 276 (and 180, 192, 293): the engine's triple is the result
TupleReturn(c, f, ret) == Finish(c, f, ret)

\* a failure of an engine step: raised, or returned as a triple
TupleFail(c, f, message, rc, step) ==
    \/ TupleRaise(c, f, RGWAMException(message, rc, step, 1))
    \/ TupleReturn(c, f, Result(rc, message, <<step, 1>>))

\* a parameter that defaults to False
ZonegroupIsMasterOptIn(given) == given = "true"

\* line 264: zonegroup_is_master: Optional[bool] = True; given is "unset" when
\* the caller leaves the parameter out
ZonegroupIsMaster(given) == given # "false"

CmdZonegroupCreate(c, realm_token, zonegroup_name, endpoints, given) ==
    /\ CanInvoke(c)
    /\ ncalls' = ncalls + 1
    /\ UNCHANGED topology
    /\ call' = [call EXCEPT ![c] =
                  [IdleFrame EXCEPT !.cmd = "zonegroup create", !.pc = "g_locate", !.idx = 1,
                                    !.args = [realm_token |-> realm_token, name |-> zonegroup_name,
                                              endpoints |-> endpoints, given |-> given,
                                              is_master |-> ZonegroupIsMaster(given)]]]

\* decode the token and locate its realm
GLocate(c) ==
    /\ call[c].pc = "g_locate"
    /\ UNCHANGED <<topology, ncalls>>
    /\ LET d == DecodeToken(call[c].args.realm_token)
           found == {r \in realms : StrBytes(r.name) = d.token.realm_name}
       IN IF ~d.ok
          THEN TupleRaise(c, call[c], RGWAMException("TokenDecodeError", -EINVAL, "decode", 1))
          ELSE \/ \E rc \in ToolFailCodes :
                    TupleFail(c, [call[c] EXCEPT !.trace = Log(c, "realm_list", FALSE)],
                              "AdminToolError", rc, "realm_list")
               \/ IF found = {}
                  THEN TupleRaise(c, [call[c] EXCEPT !.trace = Log(c, "realm_list", TRUE)],
                                  RGWAMException("ConflictError", -EINVAL, "realm_list", 1))
                  ELSE Goto(c, [call[c] EXCEPT !.trace = Log(c, "realm_list", TRUE),
                                               !.rid = MinId(found),
                                               !.seen = Cardinality(MasterZonegroups(MinId(found)))],
                            "g_create")

\* a requested master next to another master is a conflict; else create
GCreate(c) ==
    /\ call[c].pc = "g_create"
    /\ UNCHANGED <<realms, zones, daemons, ncalls>>
    /\ IF call[c].args.is_master /\ MasterZonegroups(call[c].rid) # {}
       THEN /\ TupleRaise(c, call[c], RGWAMException("ConflictError", -EINVAL, "zonegroup_create", 1))
            /\ UNCHANGED <<zonegroups, staged>>
       ELSE \/ /\ \E rc \in ToolFailCodes :
                    TupleFail(c, [call[c] EXCEPT !.trace = Log(c, "zonegroup_create", FALSE)],
                              "AdminToolError", rc, "zonegroup_create")
               /\ UNCHANGED <<zonegroups, staged>>
            \/ /\ zonegroups' = zonegroups \cup
                     {[name |-> call[c].args.name, id |-> NewId(zonegroups), realm |-> call[c].rid,
                       is_master |-> call[c].args.is_master, endpoints |-> call[c].args.endpoints]}
               /\ staged' = TRUE
               /\ Goto(c, [call[c] EXCEPT !.trace = Log(c, "zonegroup_create", TRUE),
                                          !.gid = NewId(zonegroups)], "g_commit")

GCommit(c) ==
    /\ call[c].pc = "g_commit"
    /\ UNCHANGED <<realms, zonegroups, zones, daemons, ncalls>>
    /\ \/ /\ \E rc \in ToolFailCodes :
               TupleFail(c, [call[c] EXCEPT !.trace = Log(c, "period_commit", FALSE)],
                         "AdminToolError", rc, "period_commit")
          /\ UNCHANGED staged
       \/ /\ staged' = FALSE
          /\ TupleReturn(c, [call[c] EXCEPT !.trace = Log(c, "period_commit", TRUE)],
                         Result(0, "zonegroup created", <<>>))

(***************************************************************************)
(* _cmd_rgw_realm_reconcile (module.py 278-293) and RGWAM.realm_reconcile  *)
(* (design document, section 4.5).                                         *)
(***************************************************************************)
CmdRealmReconcile(c, realm_name, zonegroup_name, zone_name, update) ==
    /\ CanInvoke(c)
    /\ ncalls' = ncalls + 1
    /\ UNCHANGED topology
    /\ call' = [call EXCEPT ![c] =
                  [IdleFrame EXCEPT !.cmd = "realm reconcile", !.pc = "r_read", !.idx = 1,
                                    !.args = [realm |-> realm_name, zonegroup |-> zonegroup_name,
                                              zone |-> zone_name, update |-> update]]]

\* the masters of S beyond the one that stays: the named one if it is a master
Extra(S, name) ==
    LET named == {x \in S : x.name = name}
        keep == IF named # {} THEN MinId(named) ELSE MinId(S)
    IN IF S = {} THEN {} ELSE {x.id : x \in S} \ {keep}

\* the invariant violations of the named triple: superfluous master flags
Diff(rid, gid, a) ==
    [zonegroups |-> Extra(MasterZonegroups(rid), a.zonegroup),
     zones |-> Extra(MasterZones(gid), a.zone)]

NoDiff == [zonegroups |-> {}, zones |-> {}]

\* read the admin tool's report of the triple and compute the diff
RRead(c) ==
    /\ call[c].pc = "r_read"
    /\ UNCHANGED <<topology, ncalls>>
    /\ LET a == call[c].args
           rs == RealmNamed(a.realm)
           gs == IF rs = {} THEN {} ELSE ZonegroupNamed(MinId(rs), a.zonegroup)
           zs == IF gs = {} THEN {} ELSE ZoneNamed(MinId(gs), a.zone)
           f == [call[c] EXCEPT !.trace = Log(c, "realm_list", zs # {})]
       IN \/ \E rc \in ToolFailCodes : TupleFail(c, [call[c] EXCEPT !.trace = Log(c, "realm_list", FALSE)],
                                                 "AdminToolError", rc, "realm_list")
          \/ IF zs = {}
             THEN TupleRaise(c, f, RGWAMException("AdminToolError", -EINVAL, "realm_list", 1))
             ELSE LET diff == Diff(MinId(rs), MinId(gs), a)
                      g == [f EXCEPT !.rid = MinId(rs), !.gid = MinId(gs), !.zid = MinId(zs),
                                     !.diff = diff]
                  IN IF ~a.update \/ diff = NoDiff
                     THEN TupleReturn(c, g, ResultData(0, "diff", <<>>, diff))
                     ELSE Goto(c, g, "r_fix")

\* the corrective calls: clear the superfluous master flags
RFix(c) ==
    /\ call[c].pc = "r_fix"
    /\ UNCHANGED <<realms, daemons, ncalls>>
    /\ \/ /\ \E rc \in ToolFailCodes :
               TupleFail(c, [call[c] EXCEPT !.trace = Log(c, "zone_modify", FALSE)],
                         "AdminToolError", rc, "zone_modify")
          /\ UNCHANGED <<zonegroups, zones, staged>>
       \/ /\ zonegroups' = {IF g.id \in call[c].diff.zonegroups THEN [g EXCEPT !.is_master = FALSE]
                            ELSE g : g \in zonegroups}
          /\ zones' = {IF z.id \in call[c].diff.zones THEN [z EXCEPT !.is_master = FALSE]
                       ELSE z : z \in zones}
          /\ staged' = TRUE
          /\ Goto(c, [call[c] EXCEPT !.trace = Log(c, "zone_modify", TRUE)], "r_commit")

RCommit(c) ==
    /\ call[c].pc = "r_commit"
    /\ UNCHANGED <<realms, zonegroups, zones, daemons, ncalls>>
    /\ \/ /\ \E rc \in ToolFailCodes :
               TupleFail(c, [call[c] EXCEPT !.trace = Log(c, "period_commit", FALSE)],
                         "AdminToolError", rc, "period_commit")
          /\ UNCHANGED staged
       \/ /\ staged' = FALSE
          /\ TupleReturn(c, [call[c] EXCEPT !.trace = Log(c, "period_commit", TRUE)],
                         ResultData(0, "diff", <<>>, call[c].diff))

(***************************************************************************)
(* update_zone_info (module.py 213-224) and RGWAM.zone_modify (the update  *)
(* of an existing zone, design document, section 4.5 and section 6).       *)
(***************************************************************************)
ZoneUpdated == "Zone updated successfully"

\* line 221: return (retval, 'Zone updated successfully', '')
ZoneUpdateReturn(c, f, ret) == Finish(c, [f EXCEPT !.ret = ret], Result(ret.rc, ZoneUpdated, <<>>))

\* lines 222-224
ZoneUpdateRaise(c, f, e) == Finish(c, f, ExceptResult(e))

\* a failure of an engine step: raised, or returned as a triple
ZoneUpdateFail(c, f, message, rc, step) ==
    \/ ZoneUpdateRaise(c, f, RGWAMException(message, rc, step, 1))
    \/ ZoneUpdateReturn(c, f, Result(rc, message, <<step, 1>>))

CmdZoneUpdate(c, realm_name, zonegroup_name, zone_name, realm_token, endpoints) ==
    /\ CanInvoke(c)
    /\ ncalls' = ncalls + 1
    /\ UNCHANGED topology
    /\ call' = [call EXCEPT ![c] =
                  [IdleFrame EXCEPT !.cmd = "zone update", !.pc = "u_modify", !.idx = 1,
                                    !.args = [realm |-> realm_name, zonegroup |-> zonegroup_name,
                                              zone |-> zone_name, realm_token |-> realm_token,
                                              endpoints |-> endpoints]]]

\* locate the zone of the named triple and modify it
UModify(c) ==
    /\ call[c].pc = "u_modify"
    /\ UNCHANGED <<realms, zonegroups, zones, daemons, ncalls>>
    /\ LET a == call[c].args
           rs == RealmNamed(a.realm)
           gs == IF rs = {} THEN {} ELSE ZonegroupNamed(MinId(rs), a.zonegroup)
           zs == IF gs = {} THEN {} ELSE ZoneNamed(MinId(gs), a.zone)
       IN IF zs = {}
          THEN /\ ZoneUpdateRaise(c, [call[c] EXCEPT !.trace = Log(c, "realm_list", FALSE)],
                                  RGWAMException("AdminToolError", -EINVAL, "realm_list", 1))
               /\ UNCHANGED staged
          ELSE \/ /\ \E rc \in ToolFailCodes :
                       ZoneUpdateFail(c, [call[c] EXCEPT !.trace = Log(c, "zone_modify", FALSE)],
                                      "AdminToolError", rc, "zone_modify")
                  /\ UNCHANGED staged
               \/ /\ staged' = TRUE
                  /\ Goto(c, [call[c] EXCEPT !.trace = Log(c, "zone_modify", TRUE),
                                             !.rid = MinId(rs), !.gid = MinId(gs),
                                             !.zid = MinId(zs)], "u_commit")

UCommit(c) ==
    /\ call[c].pc = "u_commit"
    /\ UNCHANGED <<realms, zonegroups, zones, daemons, ncalls>>
    /\ \/ /\ \E rc \in ToolFailCodes :
               ZoneUpdateFail(c, [call[c] EXCEPT !.trace = Log(c, "period_commit", FALSE)],
                              "AdminToolError", rc, "period_commit")
          /\ UNCHANGED staged
       \/ /\ staged' = FALSE
          /\ ZoneUpdateReturn(c, [call[c] EXCEPT !.trace = Log(c, "period_commit", TRUE)],
                              Result(0, "zone modified", <<>>))

(***************************************************************************)
(* Inputs.  Every read of the orchestrator's availability (api.status())   *)
(* may answer either way: the backend comes and goes.                      *)
(***************************************************************************)
\* no inbuf is being parsed
ParserIdle == [stage |-> "idle", inbuf |-> <<>>, out |-> ParseRgwSpecs(<<>>)]

RECURSIVE SeqsUpTo(_, _)
\* the sequences over S of length 0..n
SeqsUpTo(S, n) ==
    IF n = 0 THEN {<<>>}
    ELSE LET shorter == SeqsUpTo(S, n - 1)
         IN shorter \cup {Append(q, x) : q \in {t \in shorter : Len(t) = n - 1}, x \in S}

Docs == {NullDoc, NewDoc("r1", "g1", "z1"), NewDoc("r1", "g1", "z2"), NewDoc("r2", "g1", "z1"),
         NewDoc("r1", "", "z1")}

\* tokens a primary cluster hands out, and a token without its secret
TokenR1 == EncodeToken([realm_name |-> StrBytes("r1"), realm_id |-> IdBytes(1), is_primary |-> TRUE,
                        endpoint |-> EndpointBytes(1), access_key |-> StrBytes("ak"),
                        secret |-> StrBytes("sk")])
TokenR2 == EncodeToken([realm_name |-> StrBytes("r2"), realm_id |-> IdBytes(2), is_primary |-> TRUE,
                        endpoint |-> EndpointBytes(1), access_key |-> StrBytes("ak"),
                        secret |-> StrBytes("sk")])
TokenNoSecret == B64Encode(JsonDumps(SubSeq(TokenMembers(DecodeToken(TokenR1).token), 1, 5)))

JoinDocs == {NullDoc, JoinDoc(TokenR1, "z2"), JoinDoc(TokenNoSecret, "z2"),
             [JoinDoc(TokenR1, "z2") EXCEPT !.realm_name = "r1"]}

BootstrapBatches == SeqsUpTo(Docs, MaxBatch) \ {<<>>}
ZoneCreateBatches == SeqsUpTo(JoinDocs, MaxBatch) \ {<<>>}

Init ==
    /\ realms = {}
    /\ zonegroups = {}
    /\ zones = {}
    /\ daemons = {}
    /\ staged = FALSE
    /\ ncalls = 0
    /\ call = [c \in Callers |-> IdleFrame]
    /\ codec = [stage |-> "token", tok |-> TokenDecodeError.token, text |-> <<>>,
                damage |-> "none", dec |-> TokenDecodeError]
    /\ parser = ParserIdle
    /\ lastcmd = NoLast
    /\ raced = FALSE

Invoke(c) ==
    \/ \E inbuf \in BootstrapBatches, start \in BOOLEAN, available \in BOOLEAN :
          CmdRealmBootstrap(c, available, "", "", "", start, inbuf)
    \/ \E r \in {"r1", ""}, g \in {"g1", "g2", ""}, z \in {"z1", "z2", ""}, start \in BOOLEAN,
          available \in BOOLEAN :
          CmdRealmBootstrap(c, available, r, g, z, start, <<>>)
    \/ \E inbuf \in ZoneCreateBatches, start \in BOOLEAN, available \in BOOLEAN :
          CmdZoneCreate(c, available, "", <<>>, start, inbuf)
    \/ \E z \in {"z1", "z2", ""}, t \in {TokenR1, TokenR2}, start \in BOOLEAN, available \in BOOLEAN :
          CmdZoneCreate(c, available, z, t, start, <<>>)
    \/ CmdRealmTokens(c)
    \/ \E t \in {TokenR1, TokenNoSecret}, g \in {"g1", "g2"}, e \in {<<>>, <<"e1">>},
          given \in {"unset", "true", "false"} :
          CmdZonegroupCreate(c, t, g, e, given)
    \/ \E r \in {"r1"}, g \in {"g1"}, z \in {"z1", "z2"}, u \in BOOLEAN :
          CmdRealmReconcile(c, r, g, z, u)
    \/ \E z \in {"z1", "z2"} : CmdZoneUpdate(c, "r1", "g1", z, TokenR1, <<"e1">>)

Step(c) ==
    \/ BQuery(c) \/ BRealm(c) \/ BZonegroup(c) \/ BZone(c) \/ BKeys(c) \/ BCommit(c)
    \/ BDeploy(c)
    \/ ZLocate(c) \/ ZZone(c) \/ ZCommit(c) \/ ZDeploy(c)
    \/ GLocate(c) \/ GCreate(c) \/ GCommit(c)
    \/ RRead(c) \/ RFix(c) \/ RCommit(c)
    \/ UModify(c) \/ UCommit(c)

\* the commands of the module, invoked one at a time
Next ==
    /\ \E c \in SerialCallers :
          \/ Invoke(c) /\ UNCHANGED lastcmd
          \/ Step(c) /\ UNCHANGED lastcmd
          \/ Return(c)
    /\ UNCHANGED <<codec, parser, raced>>

Spec == Init /\ [][Next]_vars

(***************************************************************************)
(* Two call sites: the handlers take no lock (self.lock of line 61 is held *)
(* in __init__ only, lines 68-70) and the engine holds none across its     *)
(* steps, so the steps of two commands interleave freely.                  *)
(***************************************************************************)
\* the realm name a command in flight works on ("" for none)
FrameRealm(f) ==
    IF f.pc \in {"idle", "done"} THEN ""
    ELSE IF f.cmd = "realm bootstrap" THEN f.specs[f.idx].rgw_realm
    ELSE IF f.cmd = "realm reconcile" THEN f.args.realm
    ELSE ""

\* history: another call site has a command in flight for realm name r
InFlightFor(c, r) == \E d \in Callers \ {c} : FrameRealm(call[d]) = r

InvokeRace(c) ==
    \/ \E r \in {"r1", "r2"}, z \in {"z1", "z2"}, start \in BOOLEAN :
          /\ CmdRealmBootstrap(c, TRUE, r, "g1", z, start, <<>>)
          /\ raced' = (raced \/ InFlightFor(c, r))
    \/ \E z \in {"z1", "z2"}, u \in BOOLEAN :
          /\ CmdRealmReconcile(c, "r1", "g1", z, u)
          /\ raced' = (raced \/ InFlightFor(c, "r1"))

StepRace(c) ==
    \/ BQuery(c) \/ BRealm(c) \/ BZonegroup(c) \/ BZone(c) \/ BKeys(c) \/ BCommit(c)
    \/ BDeploy(c)
    \/ RRead(c) \/ RFix(c) \/ RCommit(c)

NextRace ==
    /\ \E c \in Callers :
          \/ InvokeRace(c) /\ UNCHANGED lastcmd
          \/ StepRace(c) /\ UNCHANGED <<lastcmd, raced>>
          \/ Return(c) /\ UNCHANGED raced
    /\ UNCHANGED <<codec, parser>>

SpecRace == Init /\ [][NextRace]_vars

(***************************************************************************)
(* The token codec on its own: a token is encoded as list_realm_tokens     *)
(* encodes it, possibly damaged on the way, and decoded.  The text of the  *)
(* fields is letters and digits (nothing json.dumps would escape).         *)
(***************************************************************************)
WellFormedTokens ==
    [realm_name : {<<114, 49>>, <<114>>}, realm_id : {<<49>>, <<49, 50>>}, is_primary : BOOLEAN,
     endpoint : {<<>>, <<104, 49>>}, access_key : {<<97, 107>>}, secret : {<<115, 107>>, <<115>>}]

InitCodec ==
    /\ realms = {} /\ zonegroups = {} /\ zones = {} /\ daemons = {} /\ staged = FALSE
    /\ ncalls = 0
    /\ call = [c \in Callers |-> IdleFrame]
    /\ \E t \in WellFormedTokens :
          codec = [stage |-> "token", tok |-> t, text |-> <<>>, damage |-> "none",
                   dec |-> TokenDecodeError]
    /\ parser = ParserIdle
    /\ lastcmd = NoLast
    /\ raced = FALSE

CodecEncode ==
    /\ codec.stage = "token"
    /\ codec' = [codec EXCEPT !.stage = "text", !.text = EncodeToken(codec.tok)]

\* the token of a sender that leaves out field k
CodecDropField ==
    /\ codec.stage = "token"
    /\ \E k \in 1..Len(TokenKeys) :
          LET m == TokenMembers(codec.tok)
          IN codec' = [codec EXCEPT !.stage = "text", !.damage = "field",
                          !.text = B64Encode(JsonDumps(SubSeq(m, 1, k - 1) \o SubSeq(m, k + 1, Len(m))))]

\* the text loses its last characters on the way
CodecCut ==
    /\ codec.stage = "text" /\ codec.damage = "none"
    /\ \E n \in 1..4 :
          codec' = [codec EXCEPT !.damage = "envelope",
                                 !.text = SubSeq(codec.text, 1, Len(codec.text) - n)]

\* a character outside the base64 alphabet gets in
CodecGarble ==
    /\ codec.stage = "text" /\ codec.damage = "none"
    /\ \E k \in {1, Len(codec.text) \div 2, Len(codec.text)} :
          codec' = [codec EXCEPT !.damage = "envelope", !.text = [codec.text EXCEPT ![k] = 33]]

CodecDecode ==
    /\ codec.stage = "text"
    /\ codec' = [codec EXCEPT !.stage = "decoded", !.dec = DecodeToken(codec.text)]

NextCodec ==
    /\ CodecEncode \/ CodecDropField \/ CodecCut \/ CodecGarble \/ CodecDecode
    /\ UNCHANGED <<topology, ncalls, call, parser, lastcmd, raced>>

SpecCodec == InitCodec /\ [][NextCodec]_vars

(***************************************************************************)
(* The parser on its own: _parse_rgw_specs applied to an inbuf of new and  *)
(* join documents, empty and invalid ones among them.                      *)
(***************************************************************************)
ParseBatches == SeqsUpTo(Docs \cup JoinDocs, MaxBatch) \ {<<>>}

InitParse ==
    /\ realms = {} /\ zonegroups = {} /\ zones = {} /\ daemons = {} /\ staged = FALSE
    /\ ncalls = 0
    /\ call = [c \in Callers |-> IdleFrame]
    /\ codec = [stage |-> "token", tok |-> TokenDecodeError.token, text |-> <<>>,
                damage |-> "none", dec |-> TokenDecodeError]
    /\ \E inbuf \in ParseBatches : parser = [ParserIdle EXCEPT !.stage = "inbuf", !.inbuf = inbuf]
    /\ lastcmd = NoLast
    /\ raced = FALSE

\* lines 157-165; the method reads inbuf and nothing else
ParseInbuf ==
    /\ parser.stage = "inbuf"
    /\ parser' = [parser EXCEPT !.stage = "parsed", !.out = ParseRgwSpecs(parser.inbuf)]
    /\ UNCHANGED <<topology, ncalls, call, codec, lastcmd, raced>>

NextParse == ParseInbuf

SpecParse == InitParse /\ [][NextParse]_vars

(***************************************************************************)
(* Properties.                                                             *)
(***************************************************************************)
Events(f) == {f.trace[k] : k \in 1..Len(f.trace)}
Done(f) == f.pc = "done"
Failed(f) == f.result.kind = "result" /\ f.result.rc # 0
Creates == {"realm_create", "zonegroup_create", "zone_create"}
Mutations == Creates \cup {"user_create", "zone_modify"}
Gated(f) == f.cmd \in {"realm bootstrap", "zone create"}

\* C1: when the orchestrator reports unavailable as realm bootstrap or zone create
\* is invoked with start_radosgw true, the command returns the gate's non-zero
\* result and has made no admin tool call and no apply
C1_GateBlocks ==
    \A c \in Callers :
        (Gated(call[c]) /\ call[c].start /\ ~call[c].available)
        => /\ Done(call[c])
           /\ call[c].result = GateResult
           /\ call[c].result.rc # 0
           /\ call[c].trace = <<>>

C1_Witness ==
    \E c \in Callers :
        call[c].cmd = "realm bootstrap" /\ call[c].start /\ ~call[c].available /\ Done(call[c])

\* spec i of the frame went through all its steps
Succeeded(f, i) ==
    /\ Event(i, "period_commit", TRUE) \in Events(f)
    /\ f.start => Event(i, "apply", TRUE) \in Events(f)
    /\ \A e \in Events(f) : e.i = i => e.ok

\* C2: a bootstrap batch is worked through in input order, spec k+1 only after
\* spec k succeeded; after the first failing spec k nothing is attempted for a
\* later spec and the result is the non-zero failure of spec k
C2_FailFast ==
    \A c \in Callers :
        LET f == call[c]
        IN (f.cmd = "realm bootstrap" /\ f.specs # <<>>)
           => /\ \A j, k \in 1..Len(f.trace) : j < k => f.trace[j].i <= f.trace[k].i
              /\ \A e \in Events(f) : e.i <= f.idx
              /\ \A i \in 1..(f.idx - 1) : Succeeded(f, i)
              /\ (Done(f) /\ Failed(f))
                 => /\ f.result.err[2] = f.idx
                    /\ ~Succeeded(f, f.idx)
              /\ (Done(f) /\ ~Failed(f))
                 => /\ f.result = BootstrapOk
                    /\ f.idx = Len(f.specs)
                    /\ Succeeded(f, f.idx)

C2_Witness ==
    \E c \in Callers :
        LET f == call[c]
        IN /\ f.cmd = "realm bootstrap" /\ Done(f) /\ Failed(f)
           /\ Len(f.specs) = MaxBatch /\ f.idx < Len(f.specs)
           /\ f.trace # <<>>

OneMasterZonegroup == \A r \in realms : Cardinality(MasterZonegroups(r.id)) <= 1
OneMasterZone == \A g \in zonegroups : Cardinality(MasterZones(g.id)) <= 1

\* C3: after every successful operation every realm has at most one master
\* zonegroup and every zonegroup at most one master zone
C3_OneMaster ==
    \A c \in Callers :
        (Done(call[c]) /\ call[c].result.kind = "result" /\ call[c].result.rc = 0)
        => (OneMasterZonegroup /\ OneMasterZone)

\* C4: a bootstrap of a spec whose realm, zonegroup and zone exist already
\* (as after a first bootstrap of the same spec) creates none of them again and
\* resolves the identifiers of the existing ones
C4_Idempotent ==
    \A c \in Callers :
        LET f == call[c]
        IN (f.cmd = "realm bootstrap" /\ f.pre.rid # 0 /\ f.pre.gid # 0 /\ f.pre.zid # 0)
           => /\ \A e \in Events(f) : e.i = f.idx => e.ev \notin Creates
              /\ (f.pc \in {"b_keys", "b_commit", "b_deploy"} \/ (Done(f) /\ ~Failed(f)))
                 => (f.rid = f.pre.rid /\ f.gid = f.pre.gid /\ f.zid = f.pre.zid)

C4_Witness ==
    \E c \in Callers :
        LET f == call[c]
        IN /\ f.cmd = "realm bootstrap" /\ Done(f) /\ ~Failed(f)
           /\ f.pre.rid # 0 /\ f.pre.gid # 0 /\ f.pre.zid # 0
           /\ f.rid = f.pre.rid /\ f.gid = f.pre.gid /\ f.zid = f.pre.zid

\* the realm the token of the frame's current spec names is not present
RealmAbsent(f) ==
    LET d == DecodeToken(f.specs[f.idx].rgw_realm_token)
    IN d.ok /\ \A r \in realms : StrBytes(r.name) # d.token.realm_name

\* C5: zone create with a token whose realm is not present locally fails with a
\* non-zero code, which is ConflictError once the realms were listed; it creates
\* no zone and never applies, with start_radosgw true or false
C5_JoinBeforeExists ==
    \A c \in Callers :
        LET f == call[c]
        IN (f.cmd = "zone create" /\ f.specs # <<>> /\ RealmAbsent(f))
           => /\ f.pc \in {"z_locate", "done"}
              /\ \A e \in Events(f) : e.i = f.idx => e.ev \notin {"zone_create", "zone_modify", "apply"}
              /\ Done(f)
                 => /\ Failed(f)
                    /\ Event(f.idx, "realm_list", TRUE) \in Events(f) => f.result.out = "ConflictError"

C5_Witness ==
    \E c \in Callers :
        LET f == call[c]
        IN /\ f.cmd = "zone create" /\ f.specs # <<>> /\ RealmAbsent(f) /\ Done(f)
           /\ f.result.out = "ConflictError" /\ realms # {} /\ ~f.start

\* C6: every command ends with one result: return code 0 only if no step failed,
\* else a non-zero code with the failing step's message and stderr
C6_OneResult ==
    \A c \in Callers :
        LET f == call[c]
        IN Done(f)
           => /\ f.result.kind = "result"
              /\ f.result.rc = 0 => \A e \in Events(f) : e.ok
              /\ f.result.rc # 0 => f.result.err # <<>>

\* the master zones of the realm's master zonegroups
RealmMasterZones(r) ==
    {z \in zones : z.is_master /\ \E g \in MasterZonegroups(r.id) : z.zonegroup = g.id}
HasKeys(z) == z.access_key # "" /\ z.secret # ""

C8_RoundTrip ==
    codec.stage = "decoded"
    => IF codec.damage = "none" THEN codec.dec = [ok |-> TRUE, token |-> codec.tok]
       ELSE ~codec.dec.ok

C8_Witness == codec.stage = "decoded" /\ codec.damage = "none" /\ codec.dec.ok /\ ~codec.tok.is_primary

\* C9: in realm bootstrap, apply is called only after a successful period commit
\* with no structural mutation in between; after a failed commit the command
\* fails and applies nothing more
C9_ApplyAfterCommit ==
    \A c \in Callers :
        LET f == call[c]
        IN f.cmd = "realm bootstrap"
           => /\ \A k \in 1..Len(f.trace) :
                    f.trace[k].ev = "apply"
                    => \E j \in 1..(k - 1) :
                          /\ f.trace[j] = Event(f.trace[k].i, "period_commit", TRUE)
                          /\ \A m \in (j + 1)..(k - 1) : f.trace[m].ev \notin Mutations
              /\ \A j \in 1..Len(f.trace) :
                    (f.trace[j].ev = "period_commit" /\ ~f.trace[j].ok)
                    => /\ \A k \in (j + 1)..Len(f.trace) : f.trace[k].ev # "apply"
                       /\ Done(f) /\ Failed(f)

C9_Witness ==
    \E c \in Callers :
        LET f == call[c]
        IN /\ f.cmd = "realm bootstrap" /\ Done(f)
           /\ Event(1, "zone_create", TRUE) \in Events(f)
           /\ Event(1, "apply", TRUE) \in Events(f)

\* C10: with start_radosgw false realm bootstrap never applies and never fails
\* for the orchestrator being unavailable
C10_GateOnlyWhenStarting ==
    \A c \in Callers :
        LET f == call[c]
        IN (f.cmd = "realm bootstrap" /\ ~f.start)
           => /\ \A e \in Events(f) : e.ev # "apply"
              /\ Done(f) => f.result # GateResult

\* the frame is a reconcile without update (a dry run)
DryRun(f) == f.cmd = "realm reconcile" /\ ~f.args.update

MissingName(f) ==
    /\ f.cmd = "realm bootstrap" /\ ~f.args.inbuf
    /\ f.args.realm_name = "" \/ f.args.zonegroup_name = "" \/ f.args.zone_name = ""

\* C12: a realm bootstrap without inbuf in which the realm, the zonegroup or the
\* zone name is missing returns a non-zero result (the argument error when the
\* gate lets it through) and has made no admin tool call and no apply
C12_MissingArguments ==
    \A c \in Callers :
        LET f == call[c]
        IN MissingName(f)
           => /\ Done(f) /\ Failed(f)
              /\ f.trace = <<>> /\ f.specs = <<>>
              /\ f.available => f.result = InvalidArguments
              /\ f.result.rc = -EINVAL

C12_Witness ==
    \E c \in Callers :
        LET f == call[c]
        IN /\ MissingName(f) /\ f.available /\ Done(f)
           /\ f.args.realm_name # "" /\ f.args.zonegroup_name # "" /\ f.args.zone_name = ""

\* the position in inbuf of its k-th document that is not empty
NthDoc(inbuf, k) ==
    CHOOSE i \in 1..Len(inbuf) :
        ~inbuf[i].null /\ Cardinality({j \in 1..i : ~inbuf[j].null}) = k

\* C13: parsing an inbuf whose documents are empty or valid returns, without an
\* error, the specs of exactly the documents that are not empty, in their order
\* in inbuf; parsing makes no admin tool call and no orchestrator call
C13_ParseDropsEmpty ==
    (parser.stage = "parsed" /\ FirstInvalid(parser.inbuf) = 0)
    => /\ parser.out.kind = "specs"
       /\ Len(parser.out.specs) = Cardinality({j \in 1..Len(parser.inbuf) : ~parser.inbuf[j].null})
       /\ \A k \in 1..Len(parser.out.specs) :
             parser.out.specs[k] = FromJson(parser.inbuf[NthDoc(parser.inbuf, k)])
       /\ realms = {} /\ zonegroups = {} /\ zones = {} /\ daemons = {} /\ ~staged
       /\ \A c \in Callers : call[c].trace = <<>>

C13_Witness ==
    /\ parser.stage = "parsed" /\ Len(parser.inbuf) = MaxBatch
    /\ parser.inbuf[1].null /\ ~parser.inbuf[MaxBatch].null
    /\ parser.out.kind = "specs" /\ Len(parser.out.specs) = 1

\* the zonegroup and the zone the attempt found under the requested names, if
\* any, are masters, as the objects a bootstrap creates are
PreMasters(f) ==
    /\ \A g \in zonegroups : g.id = f.pre.gid => g.is_master
    /\ \A z \in zones : z.id = f.pre.zid => z.is_master

\* C14: the objects a realm bootstrap has created stay when it fails; a retry of
\* the same spec finds them, and when it succeeds it has resolved the realm,
\* zonegroup and zone of the failed attempt and there is exactly one realm, one
\* master zonegroup and one master zone of the requested names
C14_RetryReuses ==
    \A c \in Callers :
        LET f == call[c]
        IN f.cmd = "realm bootstrap"
           => /\ \A e \in Events(f) :
                    LET sp == f.specs[e.i]
                    IN /\ (e.ok /\ e.ev = "realm_create") => RealmNamed(sp.rgw_realm) # {}
                       /\ (e.ok /\ e.ev = "zonegroup_create")
                          => \E r \in RealmNamed(sp.rgw_realm) : ZonegroupNamed(r.id, sp.rgw_zonegroup) # {}
                       /\ (e.ok /\ e.ev = "zone_create")
                          => \E r \in RealmNamed(sp.rgw_realm) :
                                \E g \in ZonegroupNamed(r.id, sp.rgw_zonegroup) :
                                    ZoneNamed(g.id, sp.rgw_zone) # {}
              /\ (f.prev.failed /\ Event(1, "realm_list", TRUE) \in Events(f))
                 => /\ f.prev.rid # 0 => f.pre.rid = f.prev.rid
                    /\ f.prev.gid # 0 => f.pre.gid = f.prev.gid
                    /\ f.prev.zid # 0 => f.pre.zid = f.prev.zid
              /\ (f.prev.failed /\ Done(f) /\ ~Failed(f) /\ PreMasters(f))
                 => LET sp == f.specs[1]
                    IN /\ f.prev.rid # 0 => f.rid = f.prev.rid
                       /\ f.prev.gid # 0 => f.gid = f.prev.gid
                       /\ f.prev.zid # 0 => f.zid = f.prev.zid
                       /\ Cardinality(RealmNamed(sp.rgw_realm)) = 1
                       /\ Cardinality({g \in ZonegroupNamed(f.rid, sp.rgw_zonegroup) : g.is_master}) = 1
                       /\ Cardinality({z \in ZoneNamed(f.gid, sp.rgw_zone) : z.is_master}) = 1
                       /\ Cardinality(MasterZonegroups(f.rid)) = 1

C14_Witness ==
    \E c \in Callers :
        LET f == call[c]
        IN /\ f.cmd = "realm bootstrap" /\ f.prev.failed /\ Done(f) /\ ~Failed(f)
           /\ f.prev.rid # 0 /\ f.prev.gid # 0 /\ f.prev.zid = 0
           /\ f.rid = f.prev.rid /\ f.gid = f.prev.gid /\ f.zid # 0

\* the zonegroup create has located its realm
Located(f) == f.cmd = "zonegroup create" /\ Event(1, "realm_list", TRUE) \in Events(f) /\ f.rid # 0

\* the caller asks for a master zonegroup, in so many words or by saying nothing
WantsMaster(f) == f.args.given \in {"unset", "true"}

\* C15: a zonegroup create that asks for a master (the default) in a realm that
\* has a master zonegroup fails with ConflictError, creates no zonegroup and
\* commits no period; any other one that returns code 0 has created the zonegroup
\* with the endpoints given and then committed the period, and fails only for
\* a failing admin tool call
C15_SecondMasterConflict ==
    \A c \in Callers :
        LET f == call[c]
            made == {g \in zonegroups : g.id = f.gid}
        IN Located(f)
           => IF WantsMaster(f) /\ f.seen # 0
              THEN /\ \A e \in Events(f) : e.ev \notin {"zonegroup_create", "period_commit"}
                   /\ f.gid = 0
                   /\ f.pc \in {"g_create", "done"}
                   /\ Done(f) => (Failed(f) /\ f.result.out = "ConflictError")
              ELSE /\ (Done(f) /\ ~Failed(f))
                      => /\ \E j, k \in 1..Len(f.trace) :
                               /\ j < k
                               /\ f.trace[j] = Event(1, "zonegroup_create", TRUE)
                               /\ f.trace[k] = Event(1, "period_commit", TRUE)
                         /\ made = {[name |-> f.args.name, id |-> f.gid, realm |-> f.rid,
                                     is_master |-> WantsMaster(f),
                                     endpoints |-> f.args.endpoints]}
                         /\ ~staged
                   /\ (Done(f) /\ Failed(f))
                      => /\ f.result.out = "AdminToolError"
                         /\ \E e \in Events(f) : ~e.ok

C15_Witness ==
    \E c \in Callers :
        LET f == call[c]
        IN /\ Located(f) /\ f.args.given = "unset" /\ f.seen # 0
           /\ Done(f) /\ f.result.out = "ConflictError"

\* no two realms of one name, no two zonegroups of one name in a realm, no two
\* zones of one name in a zonegroup
NoDuplicates ==
    /\ \A x, y \in realms : x.name = y.name => x = y
    /\ \A x, y \in zonegroups : (x.realm = y.realm /\ x.name = y.name) => x = y
    /\ \A x, y \in zones : (x.zonegroup = y.zonegroup /\ x.name = y.name) => x = y

\* C16: as long as no two bootstraps or reconciles for one realm name have been
\* in flight together, no realm, zonegroup or zone is duplicated and no realm has
\* two master zonegroups and no zonegroup two master zones
C16_SerialSafe == ~raced => (NoDuplicates /\ OneMasterZonegroup /\ OneMasterZone)

\* two bootstraps of one spec whose steps interleaved have left two realms of
\* one name
C16_RaceDuplicates ==
    /\ raced /\ ~NoDuplicates
    /\ \E x, y \in realms : x.name = y.name /\ x # y

\* the part of C16 that does hold: commands run one after the other duplicate
\* nothing and leave at most one master zonegroup in a realm
C16_SerialNoDuplicates == ~raced => (NoDuplicates /\ OneMasterZonegroup)

\* C17: a zone create batch is worked through in input order, spec k+1 only
\* after spec k returned code 0; after the first spec that returns a non-zero
\* code or raises, nothing is attempted for a later spec; the result is that of
\* the last spec attempted, the failing one or the last of the batch
C17_ZoneBatchFailFast ==
    \A c \in Callers :
        LET f == call[c]
        IN (f.cmd = "zone create" /\ f.specs # <<>>)
           => /\ \A j, k \in 1..Len(f.trace) : j < k => f.trace[j].i <= f.trace[k].i
              /\ \A e \in Events(f) : e.i <= f.idx
              /\ \A i \in 1..(f.idx - 1) : Succeeded(f, i)
              /\ (f.idx > 1 /\ ~Done(f)) => f.ret = ZoneOk
              /\ (Done(f) /\ Failed(f))
                 => /\ f.result.err[2] = f.idx
                    /\ ~Succeeded(f, f.idx)
              /\ (Done(f) /\ ~Failed(f))
                 => /\ f.result = ZoneOk
                    /\ f.idx = Len(f.specs)
                    /\ Succeeded(f, f.idx)

C17_Witness ==
    \E c \in Callers :
        LET f == call[c]
        IN /\ f.cmd = "zone create" /\ Done(f) /\ Failed(f)
           /\ Len(f.specs) = MaxBatch /\ f.idx < Len(f.specs)
           /\ f.ret.kind = "result" /\ f.ret.rc # 0 /\ f.result = f.ret
           /\ Event(f.idx, "zone_create", FALSE) \in Events(f)

\* C18: a realm bootstrap or zone create whose inbuf holds a document that does
\* not validate, at whatever position, executes no spec of the batch: it ends
\* with the validation error, not with success, and makes no admin tool call
\* and no apply, also when valid documents come before the invalid one
C18_ValidateBeforeExecute ==
    \A c \in Callers :
        LET f == call[c]
        IN (Gated(f) /\ f.args.invalid # 0)
           => /\ Done(f) /\ ~(f.result.kind = "result" /\ f.result.rc = 0)
              /\ f.trace = <<>> /\ f.specs = <<>> /\ f.idx = 0
              /\ f.available => f.result.out \in {"InvalidSpec", "MissingArguments"}

C18_Witness ==
    \E c \in Callers :
        LET f == call[c]
        IN /\ f.cmd = "realm bootstrap" /\ f.available /\ Done(f)
           /\ f.args.invalid = MaxBatch /\ f.args.before = MaxBatch - 1
           /\ f.result.out = "MissingArguments"

\* C19: zone update gives its success text only with return code 0; when the
\* zone modification yields a non-zero code, returned or raised, the result
\* carries that step's message and stderr
C19_SuccessTextOnlyWithZero ==
    \A c \in Callers :
        LET f == call[c]
        IN (f.cmd = "zone update" /\ Done(f))
           => /\ f.result.out = ZoneUpdated => f.result.rc = 0
              /\ f.result.rc # 0 => (f.result.out = "AdminToolError" /\ f.result.err # <<>>)

====
